---- MODULE Spec2Model ----
(***************************************************************************)
(* tailwind-serve: initTailwind / compileTailwind (src/src/index.ts).      *)
(*                                                                         *)
(* One instance on a single event loop.  Every action below is one run-to- *)
(* completion task of that loop: the synchronous code between two awaits,  *)
(* a timer callback, a watch callback, or one call of a public method.     *)
(* The project on disk, the environment variable, the wall clock and the   *)
(* callers of the instance are the environment.                            *)
(***************************************************************************)
EXTENDS Integers, Sequences, FiniteSets, Bags, TLC

\* ------------------------------------------------------------------ bounds
MaxInFlight == 2     \* compileTailwind calls in flight at once
MaxTimers == 2       \* timers the runtime holds pending at once
MaxTicks == 1        \* times the wall clock advances

\* --------------------------------------------------------- program constants
Delay == 100         \* setTimeout(..., 100)
SecondMs == 1000     \* Date.prototype.toUTCString() has one-second resolution

None == "none"       \* null / undefined

\* ------------------------------------------------------------- file names
\* A file name is a sequence of tokens; "." and "/" are the characters that
\* path.extname looks at.
AppTsx == <<"app", ".", "tsx">>
PageHtml == <<"views", "/", "page", ".", "html">>
NotesMd == <<"notes", ".", "md">>
DotEnv == <<"conf.d", "/", ".", "env">>

\* The `file` argument of a watch callback: null, or a name (maybe empty).
NoFile == [given |-> FALSE, name |-> << >>]
File(name) == [given |-> TRUE, name |-> name]
EventFiles ==
  {NoFile} \cup {File(n) : n \in {<< >>, AppTsx, PageHtml, NotesMd, DotEnv}}

\* The files on disk under each directory a stylesheet may name.  They stay
\* as they are; the project changes through its stylesheet.
FilesUnder(base) == IF base = "src" THEN {AppTsx} ELSE {PageHtml}

RECURSIVE LastIndexOf(_, _, _)
LastIndexOf(s, ch, i) ==
  IF i = 0 THEN 0
  ELSE IF s[i] = ch THEN i ELSE LastIndexOf(s, ch, i - 1)

Basename(f) ==
  LET k == LastIndexOf(f, "/", Len(f)) IN SubSeq(f, k + 1, Len(f))

\* path.extname: from the last "." of the last path segment to the end; empty
\* when there is no "." or the segment starts with its only ".".
extname(f) ==
  LET b == Basename(f)
      i == LastIndexOf(b, ".", Len(b))
  IN IF i = 0 \/ i = 1 \/ b = <<".", ".">> THEN << >> ELSE SubSeq(b, i, Len(b))

\* ------------------------------------------------------------ source roots
SrcAll == [base |-> "src", pattern |-> "**/*", negated |-> FALSE]
SrcGen == [base |-> "src", pattern |-> "gen", negated |-> TRUE]
LibAll == [base |-> "lib", pattern |-> "**/*", negated |-> FALSE]

\* The stylesheets that may be on disk, each a different text: one the
\* Compiler rejects, and two it accepts, with the `sources` it reports.
Stylesheets ==
  {[text |-> "broken", ok |-> FALSE, sources |-> << >>],
   [text |-> "@source lib", ok |-> TRUE, sources |-> <<LibAll>>],
   [text |-> "@source src, not src/gen", ok |-> TRUE, sources |-> <<SrcAll, SrcGen>>]}

\* The values of process.env.NODE_ENV: unset, or the production marker.
EnvValues == {None, "production"}

VARIABLES
  now,           \* wall clock, milliseconds
  env,           \* process.env.NODE_ENV
  sheet,         \* the stylesheet on disk: [text, ok, sources]
  pc,            \* initTailwind: "compiling", "arming", "ready",
                 \*   "compileFailed", "armFailed"
  result,        \* let result
  css,           \* let css
  lastModified,  \* let lastModified
  isDev,         \* const isDev
  watchers,      \* const watchers: sequence of [base, open]
  debounce,      \* let debounce: handle of the last timer set, or NoTimer
  timers,        \* the runtime's pending timers: set of [id, due]
  compiles,      \* compileTailwind calls in flight: bag of [kind, phase, sheet]
  lastOp,        \* the last task the loop ran and what it returned or logged
  written,       \* history: the CSS of the compile that resolved last, and when
  quietFrom,     \* history: time of the last qualifying event not yet followed
                 \*   by a timer callback, else NoTime
  unnotified     \* history: an edit was made after the last qualifying event

vars == <<now, env, sheet, pc, result, css, lastModified, isDev,
          watchers, debounce, timers, compiles, lastOp, written, quietFrom,
          unnotified>>

cellVars == <<result, css, lastModified, written>>
timerVars == <<debounce, timers, quietFrom>>

\* What a task leaves for its caller and on the console.
Op(name, log, thrown, value) ==
  [op |-> name, log |-> log, thrown |-> thrown, value |-> value]

\* The values of the closure's variables before they are assigned.
NoResult == [css |-> None, fileCount |-> 0, sources |-> << >>,
             scannedExtensions |-> {}]

NoTime == -1

\* What a task returns: nothing, the instance, the CSS, a Response, or the
\* result of a compile.
Nothing ==
  [instance |-> FALSE, body |-> None, contentType |-> None,
   cacheControl |-> None, lastModified |-> NoTime, result |-> NoResult]
Instance == [Nothing EXCEPT !.instance = TRUE]
Css(text) == [Nothing EXCEPT !.body = text]
HttpResponse(text, cc, lm) ==
  [Nothing EXCEPT !.body = text, !.contentType = "text/css",
                  !.cacheControl = cc, !.lastModified = lm]
Built(r) == [Nothing EXCEPT !.result = r]

\* A task nobody observes.
Quiet == Op("task", None, FALSE, Nothing)
NoTimer == 0
NoSheet == [text |-> None, ok |-> FALSE, sources |-> << >>]

\* ------------------------------------------------------------ compileTailwind
\* Lines 64-65, 70: the files the Scanner reports for the stylesheet's sources.
Scanned(s) ==
  UNION {FilesUnder(s.sources[i].base) :
           i \in {j \in DOMAIN s.sources : ~s.sources[j].negated}}

\* Lines 67-73: the value compileTailwind returns for the stylesheet s it
\* read.  The CSS text is identified by the stylesheet text it was built from.
CompileResult(s) ==
  [css |-> s.text,
   fileCount |-> Cardinality(Scanned(s)),
   sources |-> s.sources,
   scannedExtensions |-> {extname(f) : f \in Scanned(s)}]

\* A call of compileTailwind, suspended at its first await.
NewCompile(kind) == [kind |-> kind, phase |-> "reading", sheet |-> NoSheet]

StartCompile(kind) ==
  /\ BagCardinality(compiles) < MaxInFlight
  /\ compiles' = compiles (+) SetToBag({NewCompile(kind)})

Settle(c) == compiles' = compiles (-) SetToBag({c})

\* Lines 58-62: the stylesheet has been read and compiled; the call is
\* suspended until the scan.  (A stylesheet the Compiler rejects ends the
\* call: see the Reject actions.)
CompileRead(c) ==
  /\ BagIn(c, compiles)
  /\ c.phase = "reading"
  /\ sheet.ok
  /\ compiles' = (compiles (-) SetToBag({c}))
                   (+) SetToBag({[c EXCEPT !.phase = "scanning", !.sheet = sheet]})
  /\ lastOp' = Quiet
  /\ UNCHANGED <<now, env, sheet, pc, cellVars, isDev, watchers, timerVars,
                 unnotified>>

\* Mutant of Replace: the timestamp is left as it was.
ReplaceTorn(r) ==
  /\ result' = r
  /\ css' = r.css
  /\ lastModified' = lastModified

\* Lines 81-83, 103-105, 135-137:
\* result = ...; css = result.css; lastModified = new Date()
Replace(r) ==
  /\ result' = r
  /\ css' = r.css
  /\ lastModified' = now

\* History: the compile that read stylesheet s resolves now.
Resolved(s) == written' = [css |-> CompileResult(s).css, at |-> now]

\* Date.prototype.toUTCString(): the HTTP date, to the second.
toUTCString(t) == t \div SecondMs

Init ==
  /\ now = SecondMs - Delay
  /\ env \in EnvValues
  /\ sheet \in Stylesheets
  /\ pc = "compiling"
  /\ result = NoResult
  /\ css = None
  /\ lastModified = NoTime
  /\ isDev = FALSE
  /\ watchers = << >>
  /\ debounce = NoTimer
  /\ timers = {}
  /\ compiles = SetToBag({NewCompile("init")})
  /\ lastOp = Quiet
  /\ written = [css |-> None, at |-> NoTime]
  /\ quietFrom = NoTime
  /\ unnotified = FALSE

\* ------------------------------------------------------------- environment
Tick ==
  /\ now + Delay <= SecondMs - Delay + MaxTicks * Delay
  /\ now' = now + Delay
  /\ UNCHANGED <<env, sheet, pc, cellVars, isDev, watchers, timerVars,
                 compiles, lastOp, unnotified>>

SetEnv(v) ==
  /\ v # env
  /\ env' = v
  /\ UNCHANGED <<now, sheet, pc, cellVars, isDev, watchers, timerVars,
                 compiles, lastOp, unnotified>>

EditSheet(s) ==
  /\ s # sheet
  /\ sheet' = s
  /\ unnotified' = TRUE
  /\ UNCHANGED <<now, env, pc, cellVars, isDev, watchers, timerVars,
                 compiles, lastOp>>

\* ------------------------------------------------------------- initTailwind
\* Mutant of IsDev: the environment is not consulted.
IsDevAlways(e) == TRUE

\* Line 84.
IsDev(e) == e # "production"

\* Lines 81-93: the first compile resolves; initTailwind runs to
\* `await import("node:fs")` in development and to its `return` in production.
InitResolve(c) ==
  /\ pc = "compiling"
  /\ BagIn(c, compiles) /\ c.kind = "init" /\ c.phase = "scanning"
  /\ Settle(c)
  /\ Replace(CompileResult(c.sheet))
  /\ Resolved(c.sheet)
  /\ isDev' = IsDev(env)
  /\ pc' = IF isDev' THEN "arming" ELSE "ready"
  /\ lastOp' = Op("initTailwind", "compiled", FALSE,
                  IF isDev' THEN Nothing ELSE Instance)
  /\ UNCHANGED <<now, env, sheet, watchers, timerVars, unnotified>>

\* Mutant of InitReject: the failure is caught and an instance is returned.
InitRejectReturns(c) ==
  /\ pc = "compiling"
  /\ BagIn(c, compiles) /\ c.kind = "init" /\ c.phase = "reading"
  /\ ~sheet.ok
  /\ Settle(c)
  /\ pc' = "ready"
  /\ lastOp' = Op("initTailwind", None, FALSE, Instance)
  /\ UNCHANGED <<now, env, sheet, cellVars, isDev, watchers, timerVars,
                 unnotified>>

\* Line 81: the first compile rejects and the await throws out of initTailwind.
InitReject(c) ==
  /\ pc = "compiling"
  /\ BagIn(c, compiles) /\ c.kind = "init" /\ c.phase = "reading"
  /\ ~sheet.ok
  /\ Settle(c)
  /\ pc' = "compileFailed"
  /\ lastOp' = Op("initTailwind", None, TRUE, Nothing)
  /\ UNCHANGED <<now, env, sheet, cellVars, isDev, watchers, timerVars,
                 unnotified>>

\* The first n source roots, each with an open watch handle.
Watching(n) == [i \in 1..n |-> [base |-> result.sources[i].base, open |-> TRUE]]

\* Lines 96-120: one watch per entry of result.sources, then the return.
\* fs.watch may throw; k = 0 when none throws, else the k-th call throws.
InitArm(k) ==
  /\ pc = "arming"
  /\ k \in 0..Len(result.sources)
  /\ IF k = 0
     THEN /\ watchers' = Watching(Len(result.sources))
          /\ pc' = "ready"
          /\ lastOp' = Op("initTailwind", "watching", FALSE, Instance)
     ELSE /\ watchers' = Watching(k - 1)
          /\ pc' = "armFailed"
          /\ lastOp' = Op("initTailwind", None, TRUE, Nothing)
  /\ UNCHANGED <<now, env, sheet, cellVars, isDev, timerVars, compiles,
                 unnotified>>

\* ------------------------------------------------------------ watch callback
\* Mutant of Qualifies: the extension is not looked at.
QualifiesNamed(f) == f.given /\ f.name # << >>

\* Line 99, negated: the event has a name and its extension was scanned.
Qualifies(f) ==
  /\ f.given
  /\ f.name # << >>
  /\ extname(f.name) \in result.scannedExtensions

\* A handle no pending timer in ts has.
FreshTimer(ts) == CHOOSE n \in 1..(Cardinality(ts) + 1) : \A t \in ts : t.id # n

\* Mutant of Schedule: the pending timer is not cleared.
ScheduleNoClear ==
  /\ Cardinality(timers) < MaxTimers
  /\ timers' = timers \cup {[id |-> FreshTimer(timers), due |-> now + Delay]}
  /\ debounce' = FreshTimer(timers)

\* Lines 100-101: clearTimeout(debounce); debounce = setTimeout(..., 100)
Schedule ==
  LET kept == {t \in timers : t.id # debounce} IN
  /\ Cardinality(kept) < MaxTimers
  /\ timers' = kept \cup {[id |-> FreshTimer(kept), due |-> now + Delay]}
  /\ debounce' = FreshTimer(kept)

\* Mutant of WatchEvent: each watch callback has a debounce handle of its own
\* (the callback of the first watcher clears the shared one, the others none).
WatchEventOwnHandle(w, f) ==
  /\ pc \in {"ready", "armFailed"}
  /\ w \in DOMAIN watchers
  /\ watchers[w].open
  /\ IF Qualifies(f)
     THEN /\ IF w = 1 THEN Schedule ELSE ScheduleNoClear
          /\ quietFrom' = now
          /\ unnotified' = FALSE
          /\ lastOp' = Op(IF \E t \in timers : t.id = debounce
                          THEN "watch: rescheduled" ELSE "watch: scheduled",
                          None, FALSE, Nothing)
     ELSE /\ UNCHANGED <<timerVars, unnotified>>
          /\ lastOp' = Op("watch: dropped", None, FALSE, Nothing)
  /\ UNCHANGED <<now, env, sheet, pc, cellVars, isDev, watchers, compiles>>

\* Lines 98-101: watcher w reports a change of file f.
WatchEvent(w, f) ==
  /\ pc \in {"ready", "armFailed"}
  /\ w \in DOMAIN watchers
  /\ watchers[w].open
  /\ IF Qualifies(f)
     THEN /\ Schedule
          /\ quietFrom' = now
          /\ unnotified' = FALSE
          /\ lastOp' = Op(IF \E t \in timers : t.id = debounce
                          THEN "watch: rescheduled" ELSE "watch: scheduled",
                          None, FALSE, Nothing)
     ELSE /\ UNCHANGED <<timerVars, unnotified>>
          /\ lastOp' = Op("watch: dropped", None, FALSE, Nothing)
  /\ UNCHANGED <<now, env, sheet, pc, cellVars, isDev, watchers, compiles>>

\* Lines 101-103: the runtime runs the callback of timer t, which calls
\* compileTailwind and is suspended at its await.
TimerFire(t) ==
  /\ t \in timers
  /\ now >= t.due
  /\ timers' = timers \ {t}
  /\ StartCompile("watch")
  /\ quietFrom' = NoTime
  /\ lastOp' = Quiet
  /\ UNCHANGED <<now, env, sheet, pc, cellVars, isDev, watchers, debounce,
                 unnotified>>

\* Mutant of WatchResolve: the watches are set up again for the roots of the
\* new result.
WatchResolveRearms(c) ==
  /\ BagIn(c, compiles) /\ c.kind = "watch" /\ c.phase = "scanning"
  /\ Settle(c)
  /\ Replace(CompileResult(c.sheet))
  /\ Resolved(c.sheet)
  /\ watchers' = [i \in DOMAIN c.sheet.sources |->
                    [base |-> c.sheet.sources[i].base, open |-> TRUE]]
  /\ lastOp' = Op("recompile", "recompiled", FALSE, Nothing)
  /\ UNCHANGED <<now, env, sheet, pc, isDev, timerVars, unnotified>>

\* Lines 103-108: the recompile resolves.
WatchResolve(c) ==
  /\ BagIn(c, compiles) /\ c.kind = "watch" /\ c.phase = "scanning"
  /\ Settle(c)
  /\ Replace(CompileResult(c.sheet))
  /\ Resolved(c.sheet)
  /\ lastOp' = Op("recompile", "recompiled", FALSE, Nothing)
  /\ UNCHANGED <<now, env, sheet, pc, isDev, watchers, timerVars, unnotified>>

\* Mutant of WatchReject: no try/catch, the rejection escapes the callback.
WatchRejectUncaught(c) ==
  /\ BagIn(c, compiles) /\ c.kind = "watch" /\ c.phase = "reading"
  /\ ~sheet.ok
  /\ Settle(c)
  /\ lastOp' = Op("recompile", None, TRUE, Nothing)
  /\ UNCHANGED <<now, env, sheet, pc, cellVars, isDev, watchers, timerVars,
                 unnotified>>

\* Lines 109-111: the recompile rejects and the catch logs it.
WatchReject(c) ==
  /\ BagIn(c, compiles) /\ c.kind = "watch" /\ c.phase = "reading"
  /\ ~sheet.ok
  /\ Settle(c)
  /\ lastOp' = Op("recompile", "recompile failed", FALSE, Nothing)
  /\ UNCHANGED <<now, env, sheet, pc, cellVars, isDev, watchers, timerVars,
                 unnotified>>

\* ----------------------------------------------------------- the instance
\* Line 129.
CacheControl(dev) ==
  IF dev THEN "no-cache" ELSE "public, max-age=31536000, immutable"

\* Mutant of CssGet: the getter waits until no compile is in flight.
CssGetWaits ==
  /\ pc = "ready"
  /\ compiles = EmptyBag
  /\ lastOp' = Op("css", None, FALSE, Css(css))
  /\ UNCHANGED <<now, env, sheet, pc, cellVars, isDev, watchers, timerVars,
                 compiles, unnotified>>

\* Lines 121-123: get css()
CssGet ==
  /\ pc = "ready"
  /\ lastOp' = Op("css", None, FALSE, Css(css))
  /\ UNCHANGED <<now, env, sheet, pc, cellVars, isDev, watchers, timerVars,
                 compiles, unnotified>>

\* Mutant of Response: the mode is read from the environment at each call.
ResponseReadsEnv ==
  /\ pc = "ready"
  /\ lastOp' = Op("response", None, FALSE,
                  HttpResponse(css, CacheControl(IsDev(env)),
                               toUTCString(lastModified)))
  /\ UNCHANGED <<now, env, sheet, pc, cellVars, isDev, watchers, timerVars,
                 compiles, unnotified>>

\* Lines 125-132: response()
Response ==
  /\ pc = "ready"
  /\ lastOp' = Op("response", None, FALSE,
                  HttpResponse(css, CacheControl(isDev),
                               toUTCString(lastModified)))
  /\ UNCHANGED <<now, env, sheet, pc, cellVars, isDev, watchers, timerVars,
                 compiles, unnotified>>

\* Mutant of Rebuild: the pending timer is cleared, as a qualifying event
\* would clear it.
RebuildClearsTimer ==
  /\ pc = "ready"
  /\ StartCompile("rebuild")
  /\ timers' = {t \in timers : t.id # debounce}
  /\ lastOp' = Quiet
  /\ UNCHANGED <<now, env, sheet, pc, cellVars, isDev, watchers, debounce,
                 quietFrom, unnotified>>

\* Lines 134-135: rebuild() is called and is suspended at its await.
Rebuild ==
  /\ pc = "ready"
  /\ StartCompile("rebuild")
  /\ lastOp' = Quiet
  /\ UNCHANGED <<now, env, sheet, pc, cellVars, isDev, watchers, timerVars,
                 unnotified>>

\* Mutant of RebuildResolve: a result built from a stylesheet that has changed
\* since is dropped.
RebuildResolveUnlessStale(c) ==
  /\ BagIn(c, compiles) /\ c.kind = "rebuild" /\ c.phase = "scanning"
  /\ Settle(c)
  /\ IF c.sheet = sheet
     THEN Replace(CompileResult(c.sheet)) /\ Resolved(c.sheet)
     ELSE UNCHANGED cellVars
  /\ lastOp' = Op("rebuild", None, FALSE, Built(result'))
  /\ UNCHANGED <<now, env, sheet, pc, isDev, watchers, timerVars, unnotified>>

\* Lines 135-138: the compile of a rebuild() resolves; the call returns result.
RebuildResolve(c) ==
  /\ BagIn(c, compiles) /\ c.kind = "rebuild" /\ c.phase = "scanning"
  /\ Settle(c)
  /\ Replace(CompileResult(c.sheet))
  /\ Resolved(c.sheet)
  /\ lastOp' = Op("rebuild", None, FALSE, Built(result'))
  /\ UNCHANGED <<now, env, sheet, pc, isDev, watchers, timerVars, unnotified>>

\* Mutant of RebuildReject: the artifact is dropped before the error is thrown.
RebuildRejectClears(c) ==
  /\ BagIn(c, compiles) /\ c.kind = "rebuild" /\ c.phase = "reading"
  /\ ~sheet.ok
  /\ Settle(c)
  /\ result' = NoResult
  /\ lastOp' = Op("rebuild", None, TRUE, Nothing)
  /\ UNCHANGED <<now, env, sheet, pc, css, lastModified, written, isDev,
                 watchers, timerVars, unnotified>>

\* Line 135: the compile of a rebuild() rejects; the await throws to the caller.
RebuildReject(c) ==
  /\ BagIn(c, compiles) /\ c.kind = "rebuild" /\ c.phase = "reading"
  /\ ~sheet.ok
  /\ Settle(c)
  /\ lastOp' = Op("rebuild", None, TRUE, Nothing)
  /\ UNCHANGED <<now, env, sheet, pc, cellVars, isDev, watchers, timerVars,
                 unnotified>>

\* Mutant of Close: only the first watch handle is closed.
CloseFirst ==
  /\ pc = "ready"
  /\ watchers' = [i \in DOMAIN watchers |->
                    IF i = 1 THEN [watchers[i] EXCEPT !.open = FALSE]
                    ELSE watchers[i]]
  /\ lastOp' = Op("close", None, FALSE, Nothing)
  /\ UNCHANGED <<now, env, sheet, pc, cellVars, isDev, timerVars, compiles,
                 unnotified>>

\* Line 141: close()
Close ==
  /\ pc = "ready"
  /\ watchers' = [i \in DOMAIN watchers |-> [watchers[i] EXCEPT !.open = FALSE]]
  /\ lastOp' = Op("close", None, FALSE, Nothing)
  /\ UNCHANGED <<now, env, sheet, pc, cellVars, isDev, timerVars, compiles,
                 unnotified>>

\* --------------------------------------------------------------------------
InFlight == BagToSet(compiles)

Next ==
  \/ Tick
  \/ \E v \in EnvValues : SetEnv(v)
  \/ \E s \in Stylesheets : EditSheet(s)
  \/ \E c \in InFlight : CompileRead(c)
  \/ \E c \in InFlight : InitResolve(c)
  \/ \E c \in InFlight : InitReject(c)
  \/ \E k \in 0..Len(result.sources) : InitArm(k)
  \/ \E w \in DOMAIN watchers, f \in EventFiles : WatchEvent(w, f)
  \/ \E t \in timers : TimerFire(t)
  \/ \E c \in InFlight : WatchResolve(c)
  \/ \E c \in InFlight : WatchReject(c)
  \/ CssGet
  \/ Response
  \/ Rebuild
  \/ \E c \in InFlight : RebuildResolve(c)
  \/ \E c \in InFlight : RebuildReject(c)
  \/ Close

Spec == Init /\ [][Next]_vars

\* ==========================================================================
\* Properties
\* ==========================================================================
StartTime == SecondMs - Delay
Served == lastOp.op = "response"
Copies(c, B) == IF BagIn(c, B) THEN CopiesIn(c, B) ELSE 0

\* C1: in every state the CSS and the timestamp the instance holds were
\* written by one replace step, the one of the compile that resolved last, and
\* every css / response() read returns that pair (the timestamp as an HTTP
\* date), also while compiles are in flight.
C1_PairWrittenTogether ==
  /\ pc \in {"arming", "ready", "armFailed"} =>
       /\ css = written.css
       /\ lastModified = written.at
       /\ css = result.css
  /\ lastOp.op = "css" => lastOp.value.body = written.css
  /\ Served =>
       /\ lastOp.value.body = written.css
       /\ lastOp.value.lastModified = toUTCString(written.at)

\* A response() read while a compile is in flight, after a recompile replaced
\* the first artifact in a later second.
C1_Witness ==
  /\ Served
  /\ compiles # EmptyBag
  /\ toUTCString(written.at) # toUTCString(StartTime)
  /\ lastOp.value.lastModified = toUTCString(now)

\* A watch-triggered compile rejects in this step: it leaves compileTailwind
\* before its stylesheet was accepted.
RecompileFails ==
  \E c \in BagToSet(compiles) :
    /\ c.kind = "watch" /\ c.phase = "reading"
    /\ compiles' = compiles (-) SetToBag({c})

\* C2: a watch-triggered recompile that fails leaves css, lastModified and
\* result as they were, logs the failure and throws nothing.
C2_FailedRecompileKeepsArtifact ==
  [][RecompileFails =>
       /\ css' = css
       /\ lastModified' = lastModified
       /\ result' = result
       /\ lastOp'.log = "recompile failed"
       /\ ~lastOp'.thrown]_vars

\* The stylesheet was broken, a recompile failed, and the instance still holds
\* the artifact of the first compile.
C2_Witness ==
  /\ pc = "ready"
  /\ lastOp = Op("recompile", "recompile failed", FALSE, Nothing)
  /\ ~sheet.ok
  /\ css = result.css /\ css # None
  /\ lastModified = StartTime /\ now > StartTime

\* The last observed task after this step is a watch callback.
WatchReturned ==
  lastOp'.op \in {"watch: dropped", "watch: scheduled", "watch: rescheduled"}

\* The number of watch-triggered compiles started in this step.
RecompilesStarted ==
  Copies(NewCompile("watch"), compiles') - Copies(NewCompile("watch"), compiles)

\* C3: qualifying events that arrive while the timer of the previous one is
\* pending leave one timer pending, due one quiet period after the last of
\* them; a recompile starts only by that timer, one quiet period or more after
\* the last event, and it is the only one the burst starts.
C3_OneRecompilePerBurst ==
  /\ [](/\ Cardinality(timers) <= 1
        /\ \A t \in timers :
             /\ quietFrom # NoTime
             /\ t.due = quietFrom + Delay
             /\ t.id = debounce)
  /\ [][RecompilesStarted > 0 =>
          /\ RecompilesStarted = 1
          /\ Cardinality(timers) = 1
          /\ timers' = {}
          /\ quietFrom # NoTime
          /\ now >= quietFrom + Delay]_vars
  /\ [][WatchReturned => RecompilesStarted <= 0]_vars

\* A second qualifying event arrived while the timer of the first was pending:
\* one timer is pending, and no recompile has started.
C3_Witness ==
  /\ lastOp.op = "watch: rescheduled"
  /\ Len(watchers) > 1
  /\ Cardinality(timers) = 1
  /\ quietFrom = now /\ now > StartTime
  /\ compiles = EmptyBag

\* The claim's non-qualifying event: no file name, or an extension that is
\* not in the extension set of the artifact.
NonQualifying(f) ==
  \/ ~f.given
  \/ extname(f.name) \notin result.scannedExtensions

\* C4: a watch event without a file name, or with an extension outside the
\* artifact's extension set, sets no timer, clears none and starts no compile:
\* a watch callback either returned at once, leaving timers, debounce handle
\* and compiles as they were, or its event was not a non-qualifying one.
C4_NonQualifyingEventIgnored ==
  [][WatchReturned =>
       \/ /\ timers' = timers
          /\ debounce' = debounce
          /\ compiles' = compiles
          /\ lastOp'.op = "watch: dropped"
       \/ ~\E w \in DOMAIN watchers, f \in EventFiles :
             NonQualifying(f) /\ WatchEvent(w, f)]_vars

\* A watch callback returned at once although a timer was pending, and the
\* timer is still pending.
C4_Witness ==
  /\ lastOp.op = "watch: dropped"
  /\ timers # {}
  /\ compiles = EmptyBag

\* C5: in development, once a qualifying event has followed the last edit, the
\* stylesheet compiles and nothing is pending or in flight any more, the
\* instance serves the CSS of the edited stylesheet.
C5_EditIsServed ==
  ( /\ pc = "ready" /\ isDev
    /\ ~unnotified
    /\ sheet.ok
    /\ timers = {}
    /\ compiles = EmptyBag )
  => css = CompileResult(sheet).css

\* C6: the production marker, read when the first compile resolves, decides
\* the mode; a production instance has no watch handle, no timer and no
\* watch-triggered compile, and its artifact changes only when a rebuild()
\* resolves; a development instance has one open or closed handle or more.
C6_ProductionNeverWatches ==
  /\ [][(pc = "compiling" /\ pc' \in {"arming", "ready"}) =>
          /\ isDev' = (env # "production")
          /\ pc' = IF env = "production" THEN "ready" ELSE "arming"
          /\ watchers' = << >>]_vars
  /\ [](pc = "ready" =>
          IF isDev
          THEN Len(watchers) >= 1
          ELSE /\ watchers = << >>
               /\ timers = {} /\ debounce = NoTimer
               /\ \A c \in BagToSet(compiles) : c.kind = "rebuild")
  /\ [][(pc = "ready" /\ ~isDev /\ <<css, lastModified, result>>' # <<css, lastModified, result>>)
          => lastOp'.op = "rebuild"]_vars
  /\ [][(pc = "arming" /\ pc' = "ready") =>
          /\ Len(watchers') = Len(result.sources)
          /\ \A i \in DOMAIN watchers' : watchers'[i].open]_vars

\* A production instance whose artifact a rebuild() replaced, with the
\* environment variable unset since.
C6_Witness ==
  /\ pc = "ready" /\ ~isDev
  /\ env # "production"
  /\ lastOp.op = "rebuild" /\ ~lastOp.thrown
  /\ lastModified > StartTime

\* C7: the mode never changes once read, and every response() carries the
\* cache-control header of that mode, whatever the environment says by then.
C7_CacheControlFixedByMode ==
  /\ [](Served =>
          lastOp.value.cacheControl =
            IF isDev THEN "no-cache" ELSE "public, max-age=31536000, immutable")
  /\ [][pc # "compiling" => isDev' = isDev]_vars

\* A development instance, closed, serving after the environment variable was
\* set to the production marker and a recompile replaced the artifact.
C7_Witness ==
  /\ Served
  /\ isDev /\ env = "production"
  /\ lastOp.value.cacheControl = "no-cache"
  /\ \A i \in DOMAIN watchers : ~watchers[i].open
  /\ lastModified > StartTime

\* The compile of a rebuild() rejects in this step.
RebuildFails ==
  \E c \in BagToSet(compiles) :
    /\ c.kind = "rebuild" /\ c.phase = "reading"
    /\ compiles' = compiles (-) SetToBag({c})

\* C8: a rebuild() that fails throws to its caller and leaves css,
\* lastModified and result as they were.
C8_FailedRebuildKeepsArtifact ==
  [][RebuildFails =>
       /\ lastOp' = Op("rebuild", None, TRUE, Nothing)
       /\ css' = css
       /\ lastModified' = lastModified
       /\ result' = result]_vars

\* A rebuild() threw on a broken stylesheet; the instance still holds the
\* first artifact, extension set included.
C8_Witness ==
  /\ lastOp = Op("rebuild", None, TRUE, Nothing)
  /\ ~sheet.ok
  /\ css = result.css /\ css # None
  /\ result.scannedExtensions # {}
  /\ lastModified = StartTime /\ now > StartTime

\* C9: when the first compile fails initTailwind throws: nothing is assigned,
\* no watch handle exists and no task of the instance ever runs; an instance
\* exists only with the whole artifact of a compile that succeeded.
C9_NoInstanceWithoutArtifact ==
  /\ pc = "compileFailed" =>
       /\ lastOp = Op("initTailwind", None, TRUE, Nothing)
       /\ watchers = << >>
       /\ timers = {}
       /\ compiles = EmptyBag
       /\ result = NoResult /\ css = None /\ lastModified = NoTime
  /\ pc = "ready" =>
       /\ \E s \in Stylesheets : s.ok /\ result = CompileResult(s)
       /\ css = result.css
       /\ lastModified # NoTime

\* The first compile failed; the stylesheet has been repaired since and time
\* has passed, and still nothing is served.
C9_Witness ==
  /\ pc = "compileFailed"
  /\ sheet.ok
  /\ now > StartTime

\* C10: close() closes every watch handle, throws nothing and leaves css and
\* lastModified as they were, whenever and however often it is called.
C10_CloseReleasesAll ==
  /\ [](pc = "ready" => ENABLED Close)
  /\ [][Close =>
          /\ Len(watchers') = Len(watchers)
          /\ \A i \in DOMAIN watchers' : ~watchers'[i].open
          /\ ~lastOp'.thrown
          /\ css' = css
          /\ lastModified' = lastModified]_vars

\* close() was called on an instance with two handles; both are closed, while
\* a timer is pending and the artifact is the one held before.
C10_Witness ==
  /\ lastOp = Op("close", None, FALSE, Nothing)
  /\ Len(watchers) = 2
  /\ \A i \in DOMAIN watchers : ~watchers[i].open
  /\ timers # {}
  /\ css = written.css

\* close() has returned on a development instance: every handle is closed.
Closed ==
  /\ pc = "ready" /\ isDev
  /\ \A i \in DOMAIN watchers : ~watchers[i].open

\* C11: once close() has returned, css and response() stay callable, and the
\* content and the timestamp change only when a rebuild() resolves, whatever
\* was pending or in flight when close() was called.
C11_ClosedChangesOnlyByRebuild ==
  /\ [](Closed => (ENABLED CssGet /\ ENABLED Response))
  /\ [][(Closed /\ <<css, lastModified>>' # <<css, lastModified>>)
          => lastOp'.op = "rebuild"]_vars

\* C12: on an instance css and response() can run in every state, however
\* many compiles are in flight and whatever their phase; they return the CSS
\* and the timestamp of the compile that resolved last, and they change
\* neither the artifact nor the compiles in flight.
C12_ServingNeverBlocks ==
  /\ [](pc = "ready" => (ENABLED CssGet /\ ENABLED Response))
  /\ [][(lastOp'.op \in {"css", "response"} /\ lastOp' # lastOp) =>
          /\ lastOp'.value.body = written.css
          /\ lastOp'.op = "response" =>
                lastOp'.value.lastModified = toUTCString(written.at)
          /\ ~lastOp'.thrown
          /\ compiles' = compiles
          /\ <<result, css, lastModified>>' = <<result, css, lastModified>>]_vars

\* css was read while as many compiles as the model allows were in flight,
\* one of them not yet past its stylesheet read, after a recompile had
\* replaced the first artifact.
C12_Witness ==
  /\ lastOp.op = "css"
  /\ BagCardinality(compiles) = MaxInFlight
  /\ \E c \in BagToSet(compiles) : c.phase = "reading"
  /\ written.at > StartTime
  /\ lastOp.value.body = css

\* The compile c, past its scan, resolves in this step.
Resolves(c) ==
  /\ c.phase = "scanning"
  /\ compiles' = compiles (-) SetToBag({c})

\* C13: whenever a compile resolves, of whatever kind and whatever else is in
\* flight or has resolved before it, its result becomes the artifact: result,
\* css and timestamp are those of the compile that resolved last, and nothing
\* is thrown.
C13_LastResolvedWins ==
  [][\A c \in InFlight :
       Resolves(c) =>
         /\ result' = CompileResult(c.sheet)
         /\ css' = CompileResult(c.sheet).css
         /\ lastModified' = now
         /\ ~lastOp'.thrown]_vars

\* A rebuild() and a recompile started after it were in flight together; the
\* recompile resolved first, the rebuild() last, and the artifact is the one
\* of the rebuild(), built from the stylesheet as it was before the edit.
C13_Witness ==
  /\ pc = "ready" /\ isDev
  /\ lastOp.op = "rebuild" /\ ~lastOp.thrown
  /\ lastOp.value.result = result
  /\ compiles = EmptyBag /\ timers = {}
  /\ ~unnotified /\ sheet.ok
  /\ css # CompileResult(sheet).css

\* No edit of the stylesheet has gone unreported, and the timer of the last
\* report has fired: a recompile was started after the last edit.
RecompiledSinceEdit ==
  /\ pc = "ready" /\ isDev
  /\ ~unnotified
  /\ timers = {}
  /\ sheet.ok

\* C14: when the last of the compiles in flight resolves, and one of them was
\* started after the last change of the input, the artifact is the one of the
\* input as it is now.
C14_RaceReflectsLatestInput ==
  [][\A c \in InFlight :
       (Resolves(c) /\ compiles' = EmptyBag /\ RecompiledSinceEdit)
         => css' = CompileResult(sheet).css]_vars

\* C15: the instance never has two timers pending; a step that leaves a
\* timer pending that was not pending before leaves it alone, due one quiet
\* period from now and held by the debounce handle, the timer pending before
\* being cancelled.
C15_AtMostOneTimer ==
  /\ [](Cardinality(timers) <= 1)
  /\ [][(timers' # timers /\ timers' # {}) =>
          /\ WatchReturned
          /\ Cardinality(timers') = 1
          /\ timers' \cap timers = {}
          /\ \A t \in timers' : t.due = now + Delay /\ t.id = debounce']_vars
  /\ [][(WatchReturned /\ lastOp' # lastOp /\ lastOp'.op = "watch: rescheduled") =>
          /\ Cardinality(timers) = 1
          /\ Cardinality(timers') = 1]_vars

\* On an instance with two watchers a qualifying event arrived while the
\* timer of an earlier one was pending and the recompile of an earlier burst
\* was in flight: one timer is pending, due one quiet period from now.
C15_Witness ==
  /\ lastOp.op = "watch: rescheduled"
  /\ Len(watchers) = 2 /\ \A i \in DOMAIN watchers : watchers[i].open
  /\ \E t \in timers : timers = {t} /\ t.due = now + Delay /\ t.id = debounce
  /\ \E c \in BagToSet(compiles) : c.kind = "watch"

\* C16: in development, from the first artifact on, no step changes which
\* events qualify:
\* the filter of the watch callbacks is the extension set of the first
\* artifact for the lifetime of the instance.
C16_FilterFixedByFirstArtifact ==
  [][(isDev /\ pc \in {"arming", "ready", "armFailed"}) =>
       (\A f \in EventFiles : Qualifies(f)' = Qualifies(f))]_vars

\* The directories of a sequence of source roots or of watch handles.
Bases(xs) == [i \in DOMAIN xs |-> xs[i].base]

\* C17: arming opens watches on the source roots of the first compile; after
\* that no step adds a watch, moves one to another directory or reopens one,
\* whatever roots a later compile reports, and the only step that closes any
\* is close(), which closes all.
C17_WatchedRootsFixed ==
  /\ [][(pc = "arming" /\ pc' = "ready") =>
          /\ Bases(watchers') = Bases(result.sources)
          /\ result' = result]_vars
  /\ [][(pc \in {"ready", "armFailed"}) =>
          /\ Bases(watchers') = Bases(watchers)
          /\ \A i \in DOMAIN watchers : watchers'[i].open => watchers[i].open
          /\ watchers' # watchers =>
                /\ lastOp'.op = "close"
                /\ \A i \in DOMAIN watchers' : ~watchers'[i].open]_vars

\* A recompile installed a result whose source roots are not the watched
\* ones, and the watches are still open on the roots of the first compile.
C17_Witness ==
  /\ pc = "ready"
  /\ lastOp.op = "recompile" /\ lastOp.log = "recompiled"
  /\ Bases(result.sources) # Bases(watchers)
  /\ \A i \in DOMAIN watchers : watchers[i].open

\* C18: an instance has one watch handle at most for each directory.
C18_OneWatchPerRoot ==
  pc = "ready" =>
    \A i, j \in DOMAIN watchers :
      watchers[i].base = watchers[j].base => i = j

\* A call of rebuild() starts its compile in this step.
RebuildStarted ==
  Copies(NewCompile("rebuild"), compiles')
    > Copies(NewCompile("rebuild"), compiles)

\* The runtime can take one more compileTailwind call.
Room == BagCardinality(compiles) < MaxInFlight

\* C19: rebuild() can be called on every instance, in either mode and after
\* close(), and starts its compile in the call; the call leaves the pending
\* timer, the debounce handle and the artifact as they were, and a timer that
\* is due can fire whatever rebuild() calls were made.
C19_RebuildBypassesDebouncer ==
  /\ []((pc = "ready" /\ Room) => ENABLED Rebuild)
  /\ [][RebuildStarted =>
          /\ timers' = timers
          /\ debounce' = debounce
          /\ quietFrom' = quietFrom
          /\ <<result, css, lastModified>>' = <<result, css, lastModified>>
          /\ ~lastOp'.thrown]_vars
  /\ [](\A t \in timers : (now >= t.due /\ Room) => ENABLED TimerFire(t))

\* rebuild() was called after close() while a timer was pending; its compile
\* is the only one in flight, and the timer, now due, is still pending.
C19_Witness ==
  /\ Closed
  /\ lastOp = Quiet
  /\ compiles = SetToBag({NewCompile("rebuild")})
  /\ \E t \in timers : now >= t.due /\ t.id = debounce

\* C20: when initTailwind has thrown out of the arming loop, no watch handle
\* is open.
C20_FailedArmingLeavesNoHandle ==
  pc = "armFailed" =>
    /\ lastOp.op = "initTailwind" => lastOp.thrown
    /\ \A i \in DOMAIN watchers : ~watchers[i].open

====
